---- MODULE Spec2Model ----
(***************************************************************************)
(* A model of osquery/core/windows/wmi.cpp: the WMI request (connection    *)
(* chain, query, drain, ExecMethod), the typed getters of a result item    *)
(* and the method-argument collection.                                     *)
(*                                                                         *)
(* Remote calls (COM) are the environment: each call's HRESULT is drawn    *)
(* from the set of results the call can give.  Every acquisition and       *)
(* release of a handle is recorded, so that ownership is stated over what  *)
(* the code did and not assumed.                                           *)
(***************************************************************************)
EXTENDS Integers, Sequences, FiniteSets, TLC

VARIABLES
    pc,          \* WmiRequest: position in the constructor / lifetime
    hr,          \* WmiRequest::WmiRequest: the local HRESULT hr
    locator_,    \* WmiRequest::locator_  ("null" or "held")
    services_,   \* WmiRequest::services_ ("null" or "held")
    enum_,       \* WmiRequest::enum_     ("null" or "held")
    results_,    \* WmiRequest::results_  (sequence of object handles)
    status_,     \* WmiRequest::status_   (Status code: 0 success, 1 failure)
    calls,       \* remote calls made by the constructor, with their HRESULT
    released,    \* number of Release() calls on each connection resource
    enumGiven,   \* handles the enumerator has handed out, in order
    result_,     \* WmiResultItem::result_: the wrapped object's properties
    lastGet,     \* WmiResultItem: the last getter call (inputs and outcome)
    arguments,   \* WmiMethodArgs::arguments, of each collection object
    life,        \* each collection object: "unborn", "alive" or "destroyed"
    heap,        \* the strings SysAllocString gave out, and who freed them
    lastPut,     \* WmiMethodArgs::Put: the last call (inputs and outcome)
    moved,       \* the move construction made, if any (before and after)
    x_pc,        \* WmiRequest::ExecMethod: position in the call, or "idle"
    x,           \* WmiRequest::ExecMethod: parameters and local variables
    objects,     \* the COM objects ExecMethod was given, and their releases
    out_result,  \* the caller's out_result (object handle, 0 when empty)
    lastExec,    \* WmiRequest::ExecMethod: the last call that returned
    uaf          \* whether a released handle has been passed to a call

reqVars == <<pc, hr, locator_, services_, enum_, results_, status_, calls,
             released, enumGiven>>

itemVars == <<result_, lastGet>>

argVars == <<arguments, life, heap, lastPut, moved>>

execVars == <<x_pc, x, objects, out_result, lastExec, uaf>>

vars == <<reqVars, itemVars, argVars, execVars>>

(***************************************************************************)
(* Bounds                                                                  *)
(***************************************************************************)
\* the enumerator hands out at most this many objects
MaxItems == 3
\* a string array field has at most this many elements
MaxArrayLen == 2
\* Put is called at most this many times in a run
MaxPuts == 3
\* ExecMethod is called at most this many times on a Request
MaxExecs == 2

(***************************************************************************)
(* HRESULT values                                                          *)
(***************************************************************************)
S_OK == 0
WBEM_S_NO_ERROR == 0
\* what Next returns when the enumeration has no more objects
WBEM_S_FALSE == 1
E_FAIL == -2147467259

SUCCEEDED(h) == h >= 0
FAILED(h) == h < 0

\* results of a call that either works or fails
CallResults == {S_OK, E_FAIL}
\* results of IEnumWbemClassObject::Next asked for one object
NextResults == {WBEM_S_NO_ERROR, WBEM_S_FALSE, E_FAIL}

Resources == {"locator", "services", "enum"}

(***************************************************************************)
(* Dynamic values (VARIANT) and strings                                    *)
(***************************************************************************)
\* The eight bytes of a VARIANT's value union are four 16-bit limbs, the
\* lowest first; a union member reads the limbs it covers.
LimbMax == 2 ^ 16 - 1

bVal(v) == v[1] % 256
uiVal(v) == <<v[1]>>
lVal(v) == <<v[1], v[2]>>
boolVal(v) == v[1]
\* VARIANT_TRUE is the 16-bit value with every bit set
VARIANT_TRUE == LimbMax

\* integer conversion of a signed 32-bit value (two limbs) to a 64-bit one
SignExtend64(l) ==
    LET s == IF l[2] >= 32768 THEN LimbMax ELSE 0 IN <<l[1], l[2], s, s>>
\* integer conversion of an unsigned 16-bit value to a 32-bit one
ZeroExtend32(u) == <<u[1], 0>>

\* stringToWstring / bstrToString: the transcoding service
stringToWstring(s) == [wide |-> s]
bstrToString(b) == b.wide

Tags == {"VT_EMPTY", "VT_NULL", "VT_BOOL", "VT_UI1", "VT_UI2", "VT_I4",
         "VT_UI4", "VT_UINT", "VT_I8", "VT_UI8", "VT_BSTR",
         "VT_BSTR|VT_ARRAY"}

Success == [ok |-> TRUE, msg |-> "OK"]
Failure(m) == [ok |-> FALSE, msg |-> m]

\* A step of a call, in program order: a remote call, or the acquisition,
\* a read or the release of a transient resource.
Ev(op, obj) == [op |-> op, obj |-> obj]

\* result_->Get(property_name.c_str(), 0, &value, nullptr, nullptr):
\* the HRESULT and, on S_OK, the tagged value written to `value`
Get(item, name) == item[name]

\* the steps every getter starts with: the lookup, and on S_OK the value
\* now held, whose tag is read
Lookup(f) ==
    IF f.hr # S_OK
       THEN <<Ev("call", "Get")>>
       ELSE <<Ev("call", "Get"), Ev("acquire", "value"), Ev("read", "value")>>

\* a return path that forgets VariantClear(&value)
VariantClear_Missing == <<>>
\* VariantClear(&value)
VariantClear == <<Ev("release", "value")>>
ReadValue == <<Ev("read", "value")>>

(***************************************************************************)
(* WmiResultItem: the typed getters.  Each gives the Status returned, the  *)
(* caller's output parameter after the call and the steps taken.           *)
(***************************************************************************)
Ret(st, out, tr) == [status |-> st, out |-> out, trace |-> tr]

GetBool(item, name, ret) ==
    LET value == Get(item, name) IN
    IF value.hr # S_OK
       THEN Ret(Failure("Error retrieving data from WMI query."), ret,
                Lookup(value))
    ELSE IF value.vt # "VT_BOOL"
       THEN Ret(Failure("Invalid data type returned."), ret,
                Lookup(value) \o VariantClear)
    ELSE Ret(Success, boolVal(value.val) = VARIANT_TRUE,
             Lookup(value) \o ReadValue \o VariantClear)

GetUChar(item, name, ret) ==
    LET value == Get(item, name) IN
    IF value.hr # S_OK
       THEN Ret(Failure("Error retrieving data from WMI query."), ret,
                Lookup(value))
    ELSE IF value.vt # "VT_UI1"
       THEN Ret(Failure("Invalid data type returned."), ret,
                Lookup(value) \o VariantClear)
    ELSE Ret(Success, bVal(value.val),
             Lookup(value) \o ReadValue \o VariantClear)

GetUnsignedShort(item, name, ret) ==
    LET value == Get(item, name) IN
    IF value.hr # S_OK
       THEN Ret(Failure("Error retrieving data from WMI query."), ret,
                Lookup(value))
    ELSE IF value.vt # "VT_UI2"
       THEN Ret(Failure("Invalid data type returned."), ret,
                Lookup(value) \o VariantClear)
    ELSE Ret(Success, uiVal(value.val),
             Lookup(value) \o ReadValue \o VariantClear)

GetUnsignedInt32(item, name, ret) ==
    LET value == Get(item, name) IN
    IF value.hr # S_OK
       THEN Ret(Failure("Error retrieving data from WMI query."), ret,
                Lookup(value))
    ELSE IF value.vt # "VT_UINT"
       THEN Ret(Failure("Invalid data type returned."), ret,
                Lookup(value) \o VariantClear)
    ELSE Ret(Success, ZeroExtend32(uiVal(value.val)),
             Lookup(value) \o ReadValue \o VariantClear)

GetLong(item, name, ret) ==
    LET value == Get(item, name) IN
    IF value.hr # S_OK
       THEN Ret(Failure("Error retrieving data from WMI query."), ret,
                Lookup(value))
    ELSE IF value.vt # "VT_I4"
       THEN Ret(Failure("Invalid data type returned."), ret,
                Lookup(value) \o VariantClear)
    ELSE Ret(Success, lVal(value.val),
             Lookup(value) \o ReadValue \o VariantClear)

\* GetUnsignedLong taking a signed 32-bit field as well
GetUnsignedLong_Coerce(item, name, ret) ==
    LET value == Get(item, name) IN
    IF value.hr # S_OK
       THEN Ret(Failure("Error retrieving data from WMI query."), ret,
                Lookup(value))
    ELSE IF value.vt \notin {"VT_UI4", "VT_I4"}
       THEN Ret(Failure("Invalid data type returned."), ret,
                Lookup(value) \o VariantClear)
    ELSE Ret(Success, lVal(value.val),
             Lookup(value) \o ReadValue \o VariantClear)

GetUnsignedLong(item, name, ret) ==
    LET value == Get(item, name) IN
    IF value.hr # S_OK
       THEN Ret(Failure("Error retrieving data from WMI query."), ret,
                Lookup(value))
    ELSE IF value.vt # "VT_UI4"
       THEN Ret(Failure("Invalid data type returned."), ret,
                Lookup(value) \o VariantClear)
    ELSE Ret(Success, lVal(value.val),
             Lookup(value) \o ReadValue \o VariantClear)

GetLongLong(item, name, ret) ==
    LET value == Get(item, name) IN
    IF value.hr # S_OK
       THEN Ret(Failure("Error retrieving data from WMI query."), ret,
                Lookup(value))
    ELSE IF value.vt # "VT_I8"
       THEN Ret(Failure("Invalid data type returned."), ret,
                Lookup(value) \o VariantClear)
    ELSE Ret(Success, SignExtend64(lVal(value.val)),
             Lookup(value) \o ReadValue \o VariantClear)

\* a GetUnsignedLongLong that reads the 64-bit member ullVal
GetUnsignedLongLong_Full(item, name, ret) ==
    LET value == Get(item, name) IN
    IF value.hr # S_OK
       THEN Ret(Failure("Error retrieving data from WMI query."), ret,
                Lookup(value))
    ELSE IF value.vt # "VT_UI8"
       THEN Ret(Failure("Invalid data type returned."), ret,
                Lookup(value) \o VariantClear)
    ELSE Ret(Success, value.val,
             Lookup(value) \o ReadValue \o VariantClear)

GetUnsignedLongLong(item, name, ret) ==
    LET value == Get(item, name) IN
    IF value.hr # S_OK
       THEN Ret(Failure("Error retrieving data from WMI query."), ret,
                Lookup(value))
    ELSE IF value.vt # "VT_UI8"
       THEN Ret(Failure("Invalid data type returned."), ret,
                Lookup(value) \o VariantClear)
    ELSE Ret(Success, SignExtend64(lVal(value.val)),
             Lookup(value) \o ReadValue \o VariantClear)

\* a GetString that leaves its output alone on the failure paths
GetString_KeepsOutput(item, name, ret) ==
    LET value == Get(item, name) IN
    IF value.hr # S_OK
       THEN Ret(Failure("Error retrieving data from WMI query."), ret,
                Lookup(value))
    ELSE IF value.vt # "VT_BSTR"
       THEN Ret(Failure("Invalid data type returned."), ret,
                Lookup(value) \o VariantClear)
    ELSE Ret(Success, bstrToString(value.val),
             Lookup(value) \o ReadValue \o VariantClear)

GetString(item, name, ret) ==
    LET value == Get(item, name) IN
    IF value.hr # S_OK
       THEN Ret(Failure("Error retrieving data from WMI query."), "",
                Lookup(value))
    ELSE IF value.vt # "VT_BSTR"
       THEN Ret(Failure("Invalid data type returned."), "",
                Lookup(value) \o VariantClear)
    ELSE Ret(Success, bstrToString(value.val),
             Lookup(value) \o ReadValue \o VariantClear)

\* SafeArrayGetLBound / SafeArrayGetUBound of a one-dimensional array
SafeArrayGetLBound(parray) == parray.lbound
SafeArrayGetUBound(parray) == parray.lbound + Len(parray.data) - 1

\* for (long i = 0; i < count; i++) ret.push_back(bstrToString(pData[i]));
RECURSIVE PushBackAll(_, _, _, _)
PushBackAll(ret, pData, i, count) ==
    IF i < count
       THEN PushBackAll(Append(ret, bstrToString(pData[i + 1])), pData,
                        i + 1, count)
       ELSE ret

GetVectorOfStrings(item, name, ret) ==
    LET value == Get(item, name) IN
    IF value.hr # S_OK
       THEN Ret(Failure("Error retrieving data from WMI query."), ret,
                Lookup(value))
    ELSE IF value.vt # "VT_BSTR|VT_ARRAY"
       THEN Ret(Failure("Invalid data type returned."), ret,
                Lookup(value) \o VariantClear)
    ELSE LET lbound == SafeArrayGetLBound(value.val)
             ubound == SafeArrayGetUBound(value.val)
             count == ubound - lbound + 1
         IN Ret(Success, PushBackAll(ret, value.val.data, 0, count),
                Lookup(value) \o ReadValue \o ReadValue
                   \o <<Ev("acquire", "pData")>> \o ReadValue
                   \o <<Ev("release", "pData")>> \o VariantClear)

\* ui.QuadPart = _wtoi64(filetime_str): the number the rendered string
\* spells, as four limbs
wtoi64(str) == str.number
LowPart(q) == <<q[1], q[2]>>
HighPart(q) == <<q[3], q[4]>>

\* env: the results of CoCreateInstance, put_Value and GetFileTime, and the
\* string GetFileTime renders
GetDateTime(item, name, is_local, ft, env) ==
    LET value == Get(item, name) IN
    IF value.hr # S_OK
       THEN Ret(Failure("Error retrieving datetime from WMI query result."),
                ft, Lookup(value))
    ELSE IF value.vt # "VT_BSTR"
       THEN Ret(Failure("Expected VT_BSTR, got something else."), ft,
                Lookup(value) \o VariantClear)
    ELSE IF ~SUCCEEDED(env.create)
       THEN Ret(Failure("Failed to create SWbemDateTime object."), ft,
                Lookup(value) \o <<Ev("call", "CoCreateInstance")>>
                   \o VariantClear)
    ELSE LET created == Lookup(value)
                 \o <<Ev("call", "CoCreateInstance"), Ev("acquire", "dt")>>
                 \o ReadValue \o <<Ev("read", "dt"), Ev("call", "put_Value")>>
                 \o VariantClear
         IN
         IF ~SUCCEEDED(env.put)
            THEN Ret(Failure("Failed to set SWbemDateTime value."), ft,
                     created \o <<Ev("release", "dt")>>)
         ELSE IF ~SUCCEEDED(env.render[is_local].hr)
            THEN Ret(Failure("GetFileTime failed."), ft,
                     created \o <<Ev("read", "dt"), Ev("call", "GetFileTime")>>
                        \o <<Ev("release", "dt")>>)
         ELSE LET filetime_str == env.render[is_local].str
                  ui == wtoi64(filetime_str)
              IN Ret(Success,
                     [dwLowDateTime |-> LowPart(ui),
                      dwHighDateTime |-> HighPart(ui)],
                     created \o <<Ev("read", "dt"), Ev("call", "GetFileTime")>>
                        \o <<Ev("acquire", "filetime_str")>>
                        \o <<Ev("read", "filetime_str")>>
                        \o <<Ev("release", "filetime_str")>>
                        \o <<Ev("release", "dt")>>)

(***************************************************************************)
(* WmiResultItem: calls of the getters on a field                          *)
(***************************************************************************)
Zero == <<0, 0, 0, 0>>
WideStrings == {stringToWstring("a"), stringToWstring("bc")}
ArrayData == UNION {[1..n -> WideStrings] : n \in 0..MaxArrayLen}

\* the values a field of each tag can carry
FieldValues(vt) ==
    CASE vt = "VT_BOOL" -> {Zero, <<VARIANT_TRUE, 0, 0, 0>>}
      [] vt = "VT_UI1" -> {<<1, 0, 0, 0>>, <<255, 0, 0, 0>>}
      [] vt = "VT_UI2" -> {<<1, 0, 0, 0>>, <<LimbMax, 0, 0, 0>>}
      [] vt \in {"VT_I4", "VT_UI4", "VT_UINT"} ->
            {<<1, 0, 0, 0>>, <<0, 1, 0, 0>>, <<0, 32768, 0, 0>>,
             <<LimbMax, LimbMax, 0, 0>>}
      [] vt \in {"VT_I8", "VT_UI8"} ->
            {<<1, 0, 0, 0>>, <<0, 32768, 0, 0>>, <<LimbMax, LimbMax, 0, 0>>,
             <<0, 0, 1, 0>>, <<LimbMax, LimbMax, LimbMax, LimbMax>>}
      [] vt = "VT_BSTR" -> WideStrings
      [] vt = "VT_BSTR|VT_ARRAY" ->
            {[lbound |-> l, data |-> d] : l \in {0, 1}, d \in ArrayData}
      [] OTHER -> {Zero}

\* what Get can give for a property: an error and nothing written, or S_OK
\* and a tagged value
Fields ==
    {[hr |-> E_FAIL]}
       \cup UNION {{[hr |-> S_OK, vt |-> vt, val |-> v] : v \in FieldValues(vt)}
                     : vt \in Tags}

ItemWith(name, f) == [n \in {name} |-> f]

\* results of SWbemDateTime's GetFileTime: an error, or a rendered number
Renderings ==
    {[hr |-> E_FAIL],
     [hr |-> S_OK, str |-> [number |-> <<0, 32768, 470, 0>>]],
     [hr |-> S_OK, str |-> [number |-> <<13824, 32770, 470, 0>>]]}
DateTimeEnvs ==
    [create : CallResults, put : CallResults,
     render : [BOOLEAN -> Renderings]]

GetCall(g, f, before, res) ==
    [getter |-> g, field |-> f, before |-> before, res |-> res]

\* an item wrapping an object with one property, and no call made yet
ItemVarsInit ==
    /\ result_ \in {ItemWith("Prop", f) : f \in Fields}
    /\ lastGet = [getter |-> "none"]

\* the item of a run that calls no getter
ItemVarsIdle ==
    /\ result_ = ItemWith("Prop", [hr |-> E_FAIL])
    /\ lastGet = [getter |-> "none"]

CallGetBool ==
    /\ \E f \in {Get(result_, "Prop")}, ret \in BOOLEAN :
          lastGet' = GetCall("GetBool", f, ret, GetBool(result_, "Prop", ret))
    /\ UNCHANGED <<reqVars, result_, argVars, execVars>>

CallGetUChar ==
    /\ \E f \in {Get(result_, "Prop")}, ret \in {7} :
          lastGet' = GetCall("GetUChar", f, ret, GetUChar(result_, "Prop", ret))
    /\ UNCHANGED <<reqVars, result_, argVars, execVars>>

CallGetUnsignedShort ==
    /\ \E f \in {Get(result_, "Prop")}, ret \in {<<7>>} :
          lastGet' = GetCall("GetUnsignedShort", f, ret,
                             GetUnsignedShort(result_, "Prop", ret))
    /\ UNCHANGED <<reqVars, result_, argVars, execVars>>

CallGetUnsignedInt32 ==
    /\ \E f \in {Get(result_, "Prop")}, ret \in {<<7, 7>>} :
          lastGet' = GetCall("GetUnsignedInt32", f, ret,
                             GetUnsignedInt32(result_, "Prop", ret))
    /\ UNCHANGED <<reqVars, result_, argVars, execVars>>

CallGetLong ==
    /\ \E f \in {Get(result_, "Prop")}, ret \in {<<7, 7>>} :
          lastGet' = GetCall("GetLong", f, ret, GetLong(result_, "Prop", ret))
    /\ UNCHANGED <<reqVars, result_, argVars, execVars>>

CallGetUnsignedLong ==
    /\ \E f \in {Get(result_, "Prop")}, ret \in {<<7, 7>>} :
          lastGet' = GetCall("GetUnsignedLong", f, ret,
                             GetUnsignedLong(result_, "Prop", ret))
    /\ UNCHANGED <<reqVars, result_, argVars, execVars>>

CallGetLongLong ==
    /\ \E f \in {Get(result_, "Prop")}, ret \in {<<7, 7, 7, 7>>} :
          lastGet' = GetCall("GetLongLong", f, ret,
                             GetLongLong(result_, "Prop", ret))
    /\ UNCHANGED <<reqVars, result_, argVars, execVars>>

CallGetUnsignedLongLong ==
    /\ \E f \in {Get(result_, "Prop")}, ret \in {<<7, 7, 7, 7>>} :
          lastGet' = GetCall("GetUnsignedLongLong", f, ret,
                             GetUnsignedLongLong(result_, "Prop", ret))
    /\ UNCHANGED <<reqVars, result_, argVars, execVars>>

CallGetString ==
    /\ \E f \in {Get(result_, "Prop")}, ret \in {"", "old"} :
          lastGet' = GetCall("GetString", f, ret,
                             GetString(result_, "Prop", ret))
    /\ UNCHANGED <<reqVars, result_, argVars, execVars>>

CallGetVectorOfStrings ==
    /\ \E f \in {Get(result_, "Prop")}, ret \in {<<>>, <<"old">>} :
          lastGet' = GetCall("GetVectorOfStrings", f, ret,
                             GetVectorOfStrings(result_, "Prop", ret))
    /\ UNCHANGED <<reqVars, result_, argVars, execVars>>

CallGetDateTime ==
    /\ \E f \in {Get(result_, "Prop")}, is_local \in BOOLEAN, env \in DateTimeEnvs,
          ft \in {[dwLowDateTime |-> <<7, 7>>, dwHighDateTime |-> <<7, 7>>]} :
          lastGet' = [getter |-> "GetDateTime", field |-> f, before |-> ft,
                      is_local |-> is_local, env |-> env,
                      res |-> GetDateTime(result_, "Prop", is_local, ft, env)]
    /\ UNCHANGED <<reqVars, result_, argVars, execVars>>

ItemNext ==
    \/ CallGetBool
    \/ CallGetUChar
    \/ CallGetUnsignedShort
    \/ CallGetUnsignedInt32
    \/ CallGetLong
    \/ CallGetUnsignedLong
    \/ CallGetLongLong
    \/ CallGetUnsignedLongLong
    \/ CallGetString
    \/ CallGetVectorOfStrings
    \/ CallGetDateTime

(***************************************************************************)
(* WmiMethodArgs                                                           *)
(***************************************************************************)
\* "src" is a collection built by Put; "dst" is one move-constructed from it
ArgObjects == {"src", "dst"}
ArgNames == {"n1", "n2"}
UIntValues == {<<5, 0>>, <<0, 1>>}
StringValues == {"hello", ""}

\* SysAllocString(psz): a fresh string handle holding a copy of psz; the
\* handle is the string's index in heap.  (nullptr is handle 0.)
SysAllocString(h, psz) == Append(h, [str |-> psz, freedBy |-> <<>>])
\* SysFreeString(bstr), called on behalf of `who`
SysFreeString(h, bstr, who) ==
    [h EXCEPT ![bstr].freedBy = Append(@, who)]

\* arguments.insert(std::pair<std::string, VARIANT>(name, var)): the
\* one-argument insert of an associative container with unique keys.  The
\* collection takes the pair unless it already holds the key.  A collection
\* is written as the sequence its iteration gives; where a new pair comes
\* in that sequence, and whether the pairs already held keep their places,
\* is the container's business (the order of the keys, or of their hashes),
\* so that the call has every arrangement of the pairs as a possible outcome.
Insert(coll, name, var) ==
    IF \E i \in DOMAIN coll : coll[i].first = name
       THEN {coll}
       ELSE LET held == Append(coll, [first |-> name, second |-> var])
            IN {[i \in DOMAIN held |-> held[p[i]]] :
                  p \in Permutations(DOMAIN held)}

ArgVarsInit ==
    /\ arguments = [o \in ArgObjects |-> <<>>]
    /\ life = [o \in ArgObjects |-> IF o = "src" THEN "alive" ELSE "unborn"]
    /\ heap = <<>>
    /\ lastPut = [op |-> "none", n |-> 0, made |-> <<>>]
    /\ moved = [done |-> FALSE]

\* What the model keeps of a Put call: its inputs, the Status it returned,
\* the collection and the heap on either side of it, and the successful calls
\* made so far (made)
PutRecord(op, o, name, value, alloc_ok, r, h) ==
    [op |-> op, obj |-> o, name |-> name, value |-> value,
     alloc_ok |-> alloc_ok, status |-> r.status,
     before |-> arguments[o], after |-> r.arguments,
     heapBefore |-> heap, heapAfter |-> h, n |-> lastPut.n + 1,
     made |-> IF r.status.ok
                 THEN Append(lastPut.made,
                             [op |-> op, obj |-> o, name |-> name,
                              value |-> value])
                 ELSE lastPut.made]

\* WmiMethodArgs::Put<unsigned int> on a collection: the outcomes of the
\* call, each the Status returned and the collection after the call
PutUnsignedInt(coll, name, value) ==
    LET var == [vt |-> "VT_UI4", ulVal |-> value]
    IN {[status |-> Success, arguments |-> c] : c \in Insert(coll, name, var)}

\* a Put<std::string> that inserts the pair before it looks at what
\* SysAllocString returned
PutStdString_InsertFirst(coll, h, name, value, alloc_ok) ==
    LET wide_value == stringToWstring(value)
        bstrVal == IF alloc_ok THEN Len(h) + 1 ELSE 0
        var == [vt |-> "VT_BSTR", bstrVal |-> bstrVal]
    IN IF bstrVal = 0
          THEN {[status |-> Failure("Out of memory"), arguments |-> c,
                 heap |-> h] : c \in Insert(coll, name, var)}
          ELSE {[status |-> Success, arguments |-> c,
                 heap |-> SysAllocString(h, wide_value)] :
                  c \in Insert(coll, name, var)}

\* WmiMethodArgs::Put<std::string> on a collection: the outcomes of the
\* call, each the Status returned and the collection and the heap after the
\* call; alloc_ok: whether SysAllocString finds memory
PutStdString(coll, h, name, value, alloc_ok) ==
    LET wide_value == stringToWstring(value)
        bstrVal == IF alloc_ok THEN Len(h) + 1 ELSE 0
        var == [vt |-> "VT_BSTR", bstrVal |-> bstrVal]
    IN IF bstrVal = 0
          THEN {[status |-> Failure("Out of memory"), arguments |-> coll,
                 heap |-> h]}
          ELSE {[status |-> Success, arguments |-> c,
                 heap |-> SysAllocString(h, wide_value)] :
                  c \in Insert(coll, name, var)}

\* a call of Put<unsigned int> on a live collection object
PutUInt(o, name, value) ==
    /\ life[o] = "alive"
    /\ lastPut.n < MaxPuts
    /\ \E r \in PutUnsignedInt(arguments[o], name, value) :
          /\ arguments' = [arguments EXCEPT ![o] = r.arguments]
          /\ lastPut' = PutRecord("Put<unsigned int>", o, name, value, TRUE,
                                  r, heap)
    /\ UNCHANGED <<life, heap, moved>>
    /\ UNCHANGED <<reqVars, itemVars, execVars>>

\* a call of Put<std::string> on a live collection object
PutString(o, name, value, alloc_ok) ==
    /\ life[o] = "alive"
    /\ lastPut.n < MaxPuts
    /\ \E r \in PutStdString(arguments[o], heap, name, value, alloc_ok) :
          /\ arguments' = [arguments EXCEPT ![o] = r.arguments]
          /\ heap' = r.heap
          /\ lastPut' = PutRecord("Put<std::string>", o, name, value,
                                  alloc_ok, r, r.heap)
    /\ UNCHANGED <<life, moved>>
    /\ UNCHANGED <<reqVars, itemVars, execVars>>

\* a move constructor that copies the entries and leaves the source as it is
MoveConstruct_Copy ==
    /\ life["src"] = "alive"
    /\ life["dst"] = "unborn"
    /\ life' = [life EXCEPT !["dst"] = "alive"]
    /\ arguments' = [arguments EXCEPT !["dst"] = arguments["src"]]
    /\ moved' = [done |-> TRUE, srcBefore |-> arguments["src"],
                 srcAfter |-> arguments'["src"],
                 dstAfter |-> arguments'["dst"]]
    /\ UNCHANGED <<heap, lastPut>>
    /\ UNCHANGED <<reqVars, itemVars, execVars>>

\* WmiMethodArgs::WmiMethodArgs(WmiMethodArgs&& src):
\* std::swap(arguments, src.arguments), the new object's being empty
MoveConstruct ==
    /\ life["src"] = "alive"
    /\ life["dst"] = "unborn"
    /\ life' = [life EXCEPT !["dst"] = "alive"]
    /\ arguments' = [arguments EXCEPT !["dst"] = arguments["src"],
                                      !["src"] = arguments["dst"]]
    /\ moved' = [done |-> TRUE, srcBefore |-> arguments["src"],
                 srcAfter |-> arguments'["src"],
                 dstAfter |-> arguments'["dst"]]
    /\ UNCHANGED <<heap, lastPut>>
    /\ UNCHANGED <<reqVars, itemVars, execVars>>

\* for (const auto& p : arguments) { auto var = p.second;
\*   if (var.vt == VT_BSTR && var.bstrVal != nullptr)
\*     { SysFreeString(var.bstrVal); var.bstrVal = nullptr; } }
RECURSIVE FreeStrings(_, _, _, _)
FreeStrings(h, coll, i, who) ==
    IF i > Len(coll)
       THEN h
       ELSE LET var == coll[i].second
            IN IF var.vt = "VT_BSTR" /\ var.bstrVal # 0
                  THEN FreeStrings(SysFreeString(h, var.bstrVal, who), coll,
                                   i + 1, who)
                  ELSE FreeStrings(h, coll, i + 1, who)

\* WmiMethodArgs::~WmiMethodArgs
DestroyArgs(o) ==
    /\ life[o] = "alive"
    /\ x_pc = "idle"
    /\ heap' = FreeStrings(heap, arguments[o], 1, o)
    /\ life' = [life EXCEPT ![o] = "destroyed"]
    /\ UNCHANGED <<arguments, lastPut, moved>>
    /\ UNCHANGED <<reqVars, itemVars, execVars>>

\* Collections ExecMethod is given: each is what a few Put calls built
UIntPut(name, value) ==
    [t |-> "uint", op |-> "Put<unsigned int>", name |-> name, value |-> value]
StringPut(name, value) ==
    [t |-> "string", op |-> "Put<std::string>", name |-> name,
     value |-> value]
ArgScripts ==
    {<<>>,
     <<UIntPut("n1", <<5, 0>>)>>,
     <<UIntPut("n1", <<5, 0>>), StringPut("n2", "hello")>>,
     <<StringPut("n2", "hello"), StringPut("n2", "")>>}

\* the collections and heaps the calls of a script can leave
RECURSIVE RunPuts(_, _, _, _)
RunPuts(script, i, coll, h) ==
    IF i > Len(script)
       THEN {[arguments |-> coll, heap |-> h]}
       ELSE LET c == script[i]
            IN IF c.t = "uint"
                  THEN UNION {RunPuts(script, i + 1, r.arguments, h) :
                                r \in PutUnsignedInt(coll, c.name, c.value)}
                  ELSE UNION {RunPuts(script, i + 1, r.arguments, r.heap) :
                                r \in PutStdString(coll, h, c.name, c.value,
                                                   TRUE)}

ArgVarsBuilt ==
    \E script \in ArgScripts :
       \E r \in RunPuts(script, 1, <<>>, <<>>) :
          /\ arguments = [o \in ArgObjects |->
                            IF o = "src" THEN r.arguments ELSE <<>>]
          /\ heap = r.heap
          /\ life = [o \in ArgObjects |->
                       IF o = "src" THEN "alive" ELSE "unborn"]
          /\ lastPut = [op |-> "none", n |-> Len(script),
                        made |-> [i \in DOMAIN script |->
                                    [op |-> script[i].op, obj |-> "src",
                                     name |-> script[i].name,
                                     value |-> script[i].value]]]
          /\ moved = [done |-> FALSE]

CallPutUInt ==
    \E o \in ArgObjects, name \in ArgNames, value \in UIntValues :
       PutUInt(o, name, value)

CallPutString ==
    \E o \in ArgObjects, name \in ArgNames, value \in StringValues,
       alloc_ok \in BOOLEAN :
       PutString(o, name, value, alloc_ok)

CallDestroyArgs == \E o \in ArgObjects : DestroyArgs(o)

ArgsNext ==
    \/ CallPutUInt
    \/ CallPutString
    \/ MoveConstruct
    \/ CallDestroyArgs

(***************************************************************************)
(* WmiRequest: construction                                                *)
(***************************************************************************)
\* State of a WmiRequest object when its constructor body starts: the
\* members are default-initialised, status_ reports failure until the
\* constructor's last statement.
\* the failure a Request reports until its constructor has run to the end
InitialStatus == 1

RequestVarsInit ==
    /\ pc = "ctor_security"
    /\ hr = E_FAIL
    /\ locator_ = "null"
    /\ services_ = "null"
    /\ enum_ = "null"
    /\ results_ = <<>>
    /\ status_ = InitialStatus
    /\ calls = <<>>
    /\ released = [r \in Resources |-> 0]
    /\ enumGiven = <<>>

Call(name, h) == [call |-> name, hr |-> h]

\* hr = ::CoInitializeSecurity(...); the result is stored and not tested
CoInitializeSecurityStep ==
    /\ pc = "ctor_security"
    /\ \E h \in CallResults :
          /\ hr' = h
          /\ calls' = Append(calls, Call("CoInitializeSecurity", h))
    /\ pc' = "ctor_locator"
    /\ UNCHANGED <<locator_, services_, enum_, results_, status_, released,
                   enumGiven, itemVars, argVars, execVars>>

\* hr = ::CoCreateInstance(CLSID_WbemLocator, ...); if (hr != S_OK) return;
\* locator_.reset(locator);
CoCreateInstanceStep ==
    /\ pc = "ctor_locator"
    /\ \E h \in CallResults :
          /\ hr' = h
          /\ calls' = Append(calls, Call("CoCreateInstance", h))
          /\ IF h # S_OK
                THEN /\ pc' = "constructed"
                     /\ UNCHANGED locator_
                ELSE /\ pc' = "ctor_connect"
                     /\ locator_' = "held"
    /\ UNCHANGED <<services_, enum_, results_, status_, released, enumGiven,
                   itemVars, argVars, execVars>>

\* hr = locator_->ConnectServer(...); if (hr != S_OK) return;
\* services_.reset(services);
ConnectServerStep ==
    /\ pc = "ctor_connect"
    /\ \E h \in CallResults :
          /\ hr' = h
          /\ calls' = Append(calls, Call("ConnectServer", h))
          /\ IF h # S_OK
                THEN /\ pc' = "constructed"
                     /\ UNCHANGED services_
                ELSE /\ pc' = "ctor_query"
                     /\ services_' = "held"
    /\ UNCHANGED <<locator_, enum_, results_, status_, released, enumGiven,
                   itemVars, argVars, execVars>>

\* ExecQueryStep with the return after a failed ExecQuery left out
ExecQueryStep_NoReturn ==
    /\ pc = "ctor_query"
    /\ \E h \in CallResults :
          /\ calls' = Append(calls, Call("ExecQuery", h))
          /\ pc' = "ctor_drain"
          /\ hr' = WBEM_S_NO_ERROR
          /\ enum_' = IF h # S_OK THEN "null" ELSE "held"
    /\ UNCHANGED <<locator_, services_, results_, status_, released,
                   enumGiven, itemVars, argVars, execVars>>

\* hr = services_->ExecQuery(...); if (hr != S_OK) return;
\* enum_.reset(wbem_enum); hr = WBEM_S_NO_ERROR;
ExecQueryStep ==
    /\ pc = "ctor_query"
    /\ \E h \in CallResults :
          /\ calls' = Append(calls, Call("ExecQuery", h))
          /\ IF h # S_OK
                THEN /\ pc' = "constructed"
                     /\ hr' = h
                     /\ UNCHANGED enum_
                ELSE /\ pc' = "ctor_drain"
                     /\ hr' = WBEM_S_NO_ERROR
                     /\ enum_' = "held"
    /\ UNCHANGED <<locator_, services_, results_, status_, released,
                   enumGiven, itemVars, argVars, execVars>>

\* a drain that appends a Result Item after every Next, whatever it gave
DrainStep_AppendsAlways ==
    /\ pc = "ctor_drain"
    /\ hr = WBEM_S_NO_ERROR
    /\ \E h \in NextResults :
          /\ h = WBEM_S_NO_ERROR => Len(enumGiven) < MaxItems
          /\ LET result_count == IF h = WBEM_S_NO_ERROR THEN 1 ELSE 0
                 result == Len(enumGiven) + 1
             IN /\ hr' = h
                /\ calls' = Append(calls, Call("Next", h))
                /\ enumGiven' = IF result_count > 0
                                   THEN Append(enumGiven, result)
                                   ELSE enumGiven
                /\ results_' = Append(results_, result)
    /\ UNCHANGED <<pc, locator_, services_, enum_, status_, released, itemVars,
                   argVars, execVars>>

\* One pass of: while (hr == WBEM_S_NO_ERROR) {
\*   hr = enum_->Next(WBEM_INFINITE, 1, &result, &result_count);
\*   if (SUCCEEDED(hr) && result_count > 0) results_.emplace_back(result); }
\* Next asked for one object gives WBEM_S_NO_ERROR with one object, or
\* WBEM_S_FALSE / an error with none.
DrainStep ==
    /\ pc = "ctor_drain"
    /\ hr = WBEM_S_NO_ERROR
    /\ \E h \in NextResults :
          /\ h = WBEM_S_NO_ERROR => Len(enumGiven) < MaxItems
          /\ LET result_count == IF h = WBEM_S_NO_ERROR THEN 1 ELSE 0
                 result == Len(enumGiven) + 1
             IN /\ hr' = h
                /\ calls' = Append(calls, Call("Next", h))
                /\ enumGiven' = IF result_count > 0
                                   THEN Append(enumGiven, result)
                                   ELSE enumGiven
                /\ results_' = IF SUCCEEDED(h) /\ result_count > 0
                                  THEN Append(results_, result)
                                  ELSE results_
    /\ UNCHANGED <<pc, locator_, services_, enum_, status_, released, itemVars,
                   argVars, execVars>>

\* the loop condition fails; status_ = Status(0);
DrainEnd ==
    /\ pc = "ctor_drain"
    /\ hr # WBEM_S_NO_ERROR
    /\ status_' = 0
    /\ pc' = "constructed"
    /\ UNCHANGED <<hr, locator_, services_, enum_, results_, calls, released,
                   enumGiven, itemVars, argVars, execVars>>

\* Release() through the owning pointer, if it holds something
ReleaseHeld(ptr, n) == IF ptr = "held" THEN n + 1 ELSE n

\* ~WmiRequest: the owning pointers release what they hold
DestroyRequest ==
    /\ pc = "constructed"
    /\ x_pc = "idle"
    /\ pc' = "destroyed"
    /\ released' = [r \in Resources |->
                      CASE r = "enum" -> ReleaseHeld(enum_, released[r])
                        [] r = "services" -> ReleaseHeld(services_, released[r])
                        [] r = "locator" -> ReleaseHeld(locator_, released[r])]
    /\ enum_' = "null"
    /\ services_' = "null"
    /\ locator_' = "null"
    /\ UNCHANGED <<hr, results_, status_, calls, enumGiven, itemVars, argVars,
                   execVars>>

(***************************************************************************)
(* WmiRequest::ExecMethod, one action per statement that calls out         *)
(***************************************************************************)
MethodNames == {"StartService"}

\* what Get gives for a system property (__CLASS, __PATH) of the object
SystemFields(value) ==
    {[hr |-> E_FAIL],
     [hr |-> S_OK, vt |-> "VT_NULL", val |-> Zero],
     [hr |-> S_OK, vt |-> "VT_BSTR", val |-> stringToWstring(value)]}

\* a COM object handed to the caller with one reference; its handle is its
\* index in the table.  (nullptr is handle 0.)
NewObject(objs, kind) == Append(objs, [kind |-> kind, released |-> 0])
\* an owning pointer letting go: Release() unless it holds nullptr
Release(objs, handle) ==
    IF handle = 0 THEN objs ELSE [objs EXCEPT ![handle].released = @ + 1]

\* inline BSTR WbemClassObjectPropToBSTR(item, property): the handle
\* returned (0 for nullptr) and the heap after the call
WbemClassObjectPropToBSTR(object, property, h, alloc_ok) ==
    LET status == GetString(object, property, "").status
        value == GetString(object, property, "").out
    IN IF ~status.ok
          THEN [bstr |-> 0, heap |-> h]
          ELSE LET wstr_value == stringToWstring(value)
               IN IF alloc_ok
                     THEN [bstr |-> Len(h) + 1,
                           heap |-> SysAllocString(h, wstr_value)]
                     ELSE [bstr |-> 0, heap |-> h]

Step(name, ok) == [step |-> name, ok |-> ok]

\* whether a string handle passed to a call has been freed already
Stale(h, bstr) == bstr # 0 /\ h[bstr].freedBy # <<>>
\* whether an object handle used in a call has been released already
Gone(objs, handle) == handle # 0 /\ objs[handle].released > 0

ExecVarsInit ==
    /\ x_pc = "idle"
    /\ x = [method |-> "none"]
    /\ objects = <<>>
    /\ out_result = 0
    /\ lastExec = [n |-> 0, failures |-> {}]
    /\ uaf = FALSE

\* return st; the owning pointers args_inst, class_obj and in_def go out of
\* scope, last declared first.  lastExec keeps the call that returned and,
\* of every call that returned a failure so far, the step it returned from
\* and its message (failures).
Return(st, loc, objs, out) ==
    /\ objects' = Release(Release(Release(objs, loc.args_inst),
                                  loc.class_obj), loc.in_def)
    /\ out_result' = out
    /\ lastExec' = [n |-> lastExec.n + 1, status |-> st, locals |-> loc,
                    before |-> out_result, args |-> arguments["src"],
                    failures |->
                       IF st.ok
                          THEN lastExec.failures
                          ELSE lastExec.failures
                                  \cup {[step |-> loc.trace[Len(loc.trace)].step,
                                         msg |-> st.msg]}]
    /\ x' = [method |-> "none"]
    /\ x_pc' = "idle"

\* the steps that do not return: the call goes on at `next`
GoOn(next, loc, objs) ==
    /\ x_pc' = next
    /\ x' = loc
    /\ objects' = objs
    /\ UNCHANGED <<out_result, lastExec>>

ExecFrame == <<reqVars, itemVars, arguments, life, lastPut, moved>>

\* ExecMethod(object, method, args, out_result) is called on a constructed
\* Request, with the collection "src" as args
ExecMethodCall ==
    /\ pc = "constructed"
    /\ x_pc = "idle"
    /\ life["src"] = "alive"
    /\ lastExec.n < MaxExecs
    /\ \E method \in MethodNames :
          x' = [method |-> method, property_name |-> stringToWstring(method),
                wmi_class_name |-> 0, class_obj |-> 0, in_def |-> 0,
                args_inst |-> 0, put |-> <<>>, i |-> 1, wmi_meth_name |-> 0,
                wmi_obj_path |-> 0, out_params |-> 0, trace |-> <<>>,
                args |-> arguments["src"]]
    /\ x_pc' = "class_name"
    /\ UNCHANGED <<objects, out_result, lastExec, uaf, heap>>
    /\ UNCHANGED ExecFrame

\* BSTR wmi_class_name = WbemClassObjectPropToBSTR(object, "__CLASS");
\* if (wmi_class_name == nullptr) return failure("Class name out of memory")
ExecClassName ==
    /\ x_pc = "class_name"
    /\ \E f \in SystemFields("Win32_Service"), alloc_ok \in BOOLEAN :
          LET r == WbemClassObjectPropToBSTR(ItemWith("__CLASS", f),
                                             "__CLASS", heap, alloc_ok)
              loc == [x EXCEPT !.wmi_class_name = r.bstr,
                               !.trace = Append(@, Step("class name",
                                                        r.bstr # 0))]
          IN /\ heap' = r.heap
             /\ IF r.bstr = 0
                   THEN Return(Failure("Class name out of memory"), loc,
                               objects, out_result)
                   ELSE GoOn("GetObject", loc, objects)
    /\ UNCHANGED uaf
    /\ UNCHANGED ExecFrame

\* HRESULT hr = services_->GetObject(wmi_class_name, 0, nullptr, &raw,
\* nullptr); SysFreeString(wmi_class_name);
\* if (FAILED(hr)) return failure("Failed to GetObject");
\* class_obj.reset(raw);
\* There is no test of services_ before the call.  When services_ holds
\* nullptr the call is made through a null pointer, which is undefined: the
\* process faults at the call, or the call goes on and gives some HRESULT.
ExecGetObject ==
    /\ x_pc = "GetObject"
    /\ \/ /\ services_ = "null"
          /\ x_pc' = "fault"
          /\ x' = [x EXCEPT !.trace = Append(@, Step("GetObject", FALSE))]
          /\ UNCHANGED <<objects, out_result, lastExec, uaf, heap>>
       \/ \E h \in CallResults :
             LET objs == IF FAILED(h) THEN objects
                            ELSE NewObject(objects, "class definition")
                 raw == IF FAILED(h) THEN 0 ELSE Len(objs)
                 loc == [x EXCEPT !.class_obj = raw,
                                  !.trace = Append(@, Step("GetObject",
                                                           ~FAILED(h)))]
             IN /\ uaf' = (uaf \/ Stale(heap, x.wmi_class_name))
                /\ heap' = SysFreeString(heap, x.wmi_class_name, "ExecMethod")
                /\ IF FAILED(h)
                      THEN Return(Failure("Failed to GetObject"), loc,
                                  objects, out_result)
                      ELSE GoOn("GetMethod", loc, objs)
    /\ UNCHANGED ExecFrame

\* ExecGetMethod with the test of in_def left out
ExecGetMethod_AlwaysSpawn ==
    /\ x_pc = "GetMethod"
    /\ \E h \in CallResults, has_in \in BOOLEAN :
          LET objs == IF FAILED(h) \/ ~has_in THEN objects
                         ELSE NewObject(objects, "input schema")
              raw == IF FAILED(h) \/ ~has_in THEN 0 ELSE Len(objs)
              loc == [x EXCEPT !.in_def = raw,
                               !.trace = Append(@, Step("GetMethod",
                                                        ~FAILED(h)))]
          IN /\ uaf' = (uaf \/ Gone(objects, x.class_obj))
             /\ IF FAILED(h)
                   THEN Return(Failure("Failed to GetMethod"), loc, objects,
                               out_result)
                   ELSE GoOn("SpawnInstance", loc, objs)
    /\ UNCHANGED heap
    /\ UNCHANGED ExecFrame

\* hr = class_obj->GetMethod(property_name.c_str(), 0, &raw, nullptr);
\* if (FAILED(hr)) return failure("Failed to GetMethod");
\* in_def.reset(raw);  -- raw is nullptr when the method has no in-parameters
\* if (in_def != nullptr) { SpawnInstance ... }
ExecGetMethod ==
    /\ x_pc = "GetMethod"
    /\ \E h \in CallResults, has_in \in BOOLEAN :
          LET objs == IF FAILED(h) \/ ~has_in THEN objects
                         ELSE NewObject(objects, "input schema")
              raw == IF FAILED(h) \/ ~has_in THEN 0 ELSE Len(objs)
              loc == [x EXCEPT !.in_def = raw,
                               !.trace = Append(@, Step("GetMethod",
                                                        ~FAILED(h)))]
          IN /\ uaf' = (uaf \/ Gone(objects, x.class_obj))
             /\ IF FAILED(h)
                   THEN Return(Failure("Failed to GetMethod"), loc, objects,
                               out_result)
                   ELSE IF loc.in_def # 0
                           THEN GoOn("SpawnInstance", loc, objs)
                           ELSE GoOn("method name", loc, objs)
    /\ UNCHANGED heap
    /\ UNCHANGED ExecFrame

\* hr = in_def->SpawnInstance(0, &raw);
\* if (FAILED(hr)) return failure("Failed to SpawnInstance");
\* args_inst.reset(raw); for (const auto& p : args.GetArguments()) ...
ExecSpawnInstance ==
    /\ x_pc = "SpawnInstance"
    /\ \E h \in CallResults :
          LET objs == IF FAILED(h) THEN objects
                         ELSE NewObject(objects, "argument instance")
              raw == IF FAILED(h) THEN 0 ELSE Len(objs)
              loc == [x EXCEPT !.args_inst = raw,
                               !.trace = Append(@, Step("SpawnInstance",
                                                        ~FAILED(h)))]
          IN /\ uaf' = (uaf \/ Gone(objects, x.in_def))
             /\ IF FAILED(h)
                   THEN Return(Failure("Failed to SpawnInstance"), loc,
                               objects, out_result)
                   ELSE IF Len(arguments["src"]) >= 1
                           THEN GoOn("Put", loc, objs)
                           ELSE GoOn("method name", loc, objs)
    /\ UNCHANGED heap
    /\ UNCHANGED ExecFrame

\* One pass of the loop over args.GetArguments():
\*   auto pVal = p.second;
\*   hr = args_inst->Put(args_name.c_str(), 0, &pVal, 0);
\*   if (FAILED(hr)) return failure("Failed to Put arguments");
\* Put stores a copy of the value under the name.
ExecPut ==
    /\ x_pc = "Put"
    /\ \E h \in CallResults :
          LET p == arguments["src"][x.i]
              name == p.first
              pVal == p.second
              args_name == stringToWstring(name)
              loc == [x EXCEPT !.i = @ + 1,
                               !.put = IF FAILED(h) THEN @
                                          ELSE Append(@, <<args_name, pVal>>),
                               !.trace = Append(@, Step("Put", ~FAILED(h)))]
          IN /\ uaf' = (uaf \/ Gone(objects, x.args_inst)
                            \/ (pVal.vt = "VT_BSTR"
                                  /\ Stale(heap, pVal.bstrVal)))
             /\ IF FAILED(h)
                   THEN Return(Failure("Failed to Put arguments"), loc,
                               objects, out_result)
                   ELSE IF loc.i <= Len(arguments["src"])
                           THEN GoOn("Put", loc, objects)
                           ELSE GoOn("method name", loc, objects)
    /\ UNCHANGED heap
    /\ UNCHANGED ExecFrame

\* ExecMethodName with the return after a failed allocation left out
ExecMethodName_NoReturn ==
    /\ x_pc = "method name"
    /\ \E alloc_ok \in BOOLEAN :
          LET bstr == IF alloc_ok THEN Len(heap) + 1 ELSE 0
              loc == [x EXCEPT !.wmi_meth_name = bstr,
                               !.trace = Append(@, Step("method name",
                                                        bstr # 0))]
          IN /\ heap' = IF bstr = 0 THEN heap
                           ELSE SysAllocString(heap, x.property_name)
             /\ GoOn("object path", loc, objects)
    /\ UNCHANGED uaf
    /\ UNCHANGED ExecFrame

\* auto wmi_meth_name = SysAllocString(property_name.c_str());
\* if (wmi_meth_name == nullptr) return failure("Out of memory");
ExecMethodName ==
    /\ x_pc = "method name"
    /\ \E alloc_ok \in BOOLEAN :
          LET bstr == IF alloc_ok THEN Len(heap) + 1 ELSE 0
              loc == [x EXCEPT !.wmi_meth_name = bstr,
                               !.trace = Append(@, Step("method name",
                                                        bstr # 0))]
          IN IF bstr = 0
                THEN /\ Return(Failure("Out of memory"), loc, objects,
                               out_result)
                     /\ UNCHANGED heap
                ELSE /\ heap' = SysAllocString(heap, x.property_name)
                     /\ GoOn("object path", loc, objects)
    /\ UNCHANGED uaf
    /\ UNCHANGED ExecFrame

\* ExecObjectPath without the SysFreeString(wmi_meth_name) of its failure
\* path
ExecObjectPath_Leak ==
    /\ x_pc = "object path"
    /\ \E f \in SystemFields("Win32_Service.Name=1"), alloc_ok \in BOOLEAN :
          LET r == WbemClassObjectPropToBSTR(ItemWith("__PATH", f), "__PATH",
                                             heap, alloc_ok)
              loc == [x EXCEPT !.wmi_obj_path = r.bstr,
                               !.trace = Append(@, Step("object path",
                                                        r.bstr # 0))]
          IN /\ heap' = r.heap
             /\ IF r.bstr = 0
                   THEN Return(Failure("Out of memory"), loc, objects,
                               out_result)
                   ELSE GoOn("ExecMethod", loc, objects)
    /\ UNCHANGED uaf
    /\ UNCHANGED ExecFrame

\* auto wmi_obj_path = WbemClassObjectPropToBSTR(object, "__PATH");
\* if (wmi_obj_path == nullptr)
\*   { SysFreeString(wmi_meth_name); return failure("Out of memory"); }
ExecObjectPath ==
    /\ x_pc = "object path"
    /\ \E f \in SystemFields("Win32_Service.Name=1"), alloc_ok \in BOOLEAN :
          LET r == WbemClassObjectPropToBSTR(ItemWith("__PATH", f), "__PATH",
                                             heap, alloc_ok)
              loc == [x EXCEPT !.wmi_obj_path = r.bstr,
                               !.trace = Append(@, Step("object path",
                                                        r.bstr # 0))]
          IN IF r.bstr = 0
                THEN /\ heap' = SysFreeString(r.heap, x.wmi_meth_name,
                                              "ExecMethod")
                     /\ Return(Failure("Out of memory"), loc, objects,
                               out_result)
                ELSE /\ heap' = r.heap
                     /\ GoOn("ExecMethod", loc, objects)
    /\ UNCHANGED uaf
    /\ UNCHANGED ExecFrame

\* hr = services_->ExecMethod(wmi_obj_path, wmi_meth_name, 0, nullptr,
\*                            args_inst.get(), &out_params, nullptr);
\* SysFreeString(wmi_meth_name); SysFreeString(wmi_obj_path);
\* if (FAILED(hr)) return failure("Failed to ExecMethod");
\* out_result = std::move(WmiResultItem(out_params)); return success();
\* The assignment releases the object out_result wrapped before.
\* As at GetObject, the call through services_ is made untested.
ExecRemoteCall ==
    /\ x_pc = "ExecMethod"
    /\ \/ /\ services_ = "null"
          /\ x_pc' = "fault"
          /\ x' = [x EXCEPT !.trace = Append(@, [step |-> "ExecMethod",
                                                 ok |-> FALSE,
                                                 in_params |-> x.args_inst])]
          /\ UNCHANGED <<objects, out_result, lastExec, uaf, heap>>
       \/ \E h \in CallResults :
             LET objs == IF FAILED(h) THEN objects
                            ELSE NewObject(objects, "output parameters")
                 out_params == IF FAILED(h) THEN 0 ELSE Len(objs)
                 loc == [x EXCEPT !.out_params = out_params,
                                  !.trace = Append(@, [step |-> "ExecMethod",
                                                       ok |-> ~FAILED(h),
                                                       in_params |->
                                                          x.args_inst])]
             IN /\ uaf' = (uaf \/ Stale(heap, x.wmi_obj_path)
                               \/ Stale(heap, x.wmi_meth_name)
                               \/ Gone(objects, x.args_inst))
                /\ heap' = SysFreeString(SysFreeString(heap, x.wmi_meth_name,
                                                       "ExecMethod"),
                                         x.wmi_obj_path, "ExecMethod")
                /\ IF FAILED(h)
                      THEN Return(Failure("Failed to ExecMethod"), loc,
                                  objects, out_result)
                      ELSE Return(Success, loc, Release(objs, out_result),
                                  out_params)
    /\ UNCHANGED ExecFrame

RequestNext ==
    \/ CoInitializeSecurityStep
    \/ CoCreateInstanceStep
    \/ ConnectServerStep
    \/ ExecQueryStep
    \/ DrainStep
    \/ DrainEnd
    \/ ExecMethodCall
    \/ ExecClassName
    \/ ExecGetObject
    \/ ExecGetMethod
    \/ ExecSpawnInstance
    \/ ExecPut
    \/ ExecMethodName
    \/ ExecObjectPath
    \/ ExecRemoteCall
    \/ DestroyRequest
    \/ CallDestroyArgs

InitRequest ==
    RequestVarsInit /\ ItemVarsIdle /\ ArgVarsBuilt /\ ExecVarsInit

SpecRequest == InitRequest /\ [][RequestNext]_vars

InitItem == RequestVarsInit /\ ItemVarsInit /\ ArgVarsInit /\ ExecVarsInit

SpecItem == InitItem /\ [][ItemNext]_vars

InitArgs == RequestVarsInit /\ ItemVarsIdle /\ ArgVarsInit /\ ExecVarsInit

SpecArgs == InitArgs /\ [][ArgsNext]_vars

(***************************************************************************)
(* Properties of the Request's construction                               *)
(***************************************************************************)
Finished == pc \in {"constructed", "destroyed"}

\* whether the constructor made the call `name`, and with what result
Made(name) == \E i \in DOMAIN calls : calls[i].call = name
Rejected(name) ==
    \E i \in DOMAIN calls : calls[i].call = name /\ calls[i].hr # S_OK

\* C1: a Request whose ExecQuery was rejected ends with a failure status,
\* no result and no enumerator; it holds the locator and the services handle
\* while it lives, and its destruction releases each of them exactly once.
C1_RejectedQueryFailsAndReleases ==
    (Finished /\ Rejected("ExecQuery")) =>
       /\ status_ # 0
       /\ results_ = <<>>
       /\ enum_ = "null"
       /\ released["enum"] = 0
       /\ IF pc = "constructed"
             THEN /\ locator_ = "held" /\ released["locator"] = 0
                  /\ services_ = "held" /\ released["services"] = 0
             ELSE /\ locator_ = "null" /\ released["locator"] = 1
                  /\ services_ = "null" /\ released["services"] = 1

C1_Witness ==
    /\ pc = "destroyed"
    /\ Rejected("ExecQuery")
    /\ released["locator"] = 1
    /\ released["services"] = 1

\* how the drain ended: the result of the last Next
DrainEndedWith(h) ==
    /\ calls # <<>>
    /\ calls[Len(calls)].call = "Next"
    /\ calls[Len(calls)].hr = h

ChainSucceeded ==
    /\ Made("ExecQuery")
    /\ \A i \in DOMAIN calls : calls[i].call # "Next" => calls[i].hr = S_OK

\* C2: a finished Request reports success only if every step of the chain
\* succeeded and the drain ended on end-of-results; when the enumerator
\* gave an error while draining, the Request holds the items got so far and
\* reports failure.
C2_SuccessOnlyOnCompleteDrain ==
    Finished =>
       /\ status_ = 0 => (ChainSucceeded /\ DrainEndedWith(WBEM_S_FALSE))
       /\ (\E i \in DOMAIN calls : calls[i].call = "Next" /\ FAILED(calls[i].hr))
             => (status_ # 0 /\ results_ = enumGiven)

\* the order of the chain
ChainRank(name) ==
    CASE name = "CoInitializeSecurity" -> 1
      [] name = "CoCreateInstance" -> 2
      [] name = "ConnectServer" -> 3
      [] name = "ExecQuery" -> 4
      [] name = "Next" -> 5

CallFailed(c) == IF c.call = "Next" THEN FAILED(c.hr) ELSE c.hr # S_OK

\* C3: the constructor makes its calls in the order of the chain, and makes
\* no call after one that failed, the security initialisation included.
C3_FailureHaltsChain ==
    /\ \A i \in DOMAIN calls :
          /\ ChainRank(calls[i].call) <= i
          /\ i > 1 => ChainRank(calls[i - 1].call) <= ChainRank(calls[i].call)
          /\ i <= 4 => ChainRank(calls[i].call) = i
    /\ \A i \in DOMAIN calls : CallFailed(calls[i]) => i = Len(calls)

\* the calls of the enumerator the constructor made, in order
NextCalls == SelectSeq(calls, LAMBDA c : c.call = "Next")

\* C17: every Next gives at most one item; a Result Item is appended for
\* each Next that gave one and for no other; no Next follows one that
\* returned anything other than WBEM_S_NO_ERROR, and the drain does not end
\* before such a return; results_ is the handles the enumerator gave, in the
\* order given, none twice and none left out.
C17_DrainOneAtATime ==
    /\ \A i \in DOMAIN NextCalls :
          NextCalls[i].hr # WBEM_S_NO_ERROR => i = Len(NextCalls)
    /\ (Finished /\ Made("ExecQuery") /\ ~Rejected("ExecQuery")) =>
          /\ NextCalls # <<>>
          /\ NextCalls[Len(NextCalls)].hr # WBEM_S_NO_ERROR
    /\ Len(results_) =
          Cardinality({i \in DOMAIN NextCalls :
                         NextCalls[i].hr = WBEM_S_NO_ERROR})
    /\ results_ = enumGiven
    /\ \A i, j \in DOMAIN results_ : results_[i] = results_[j] => i = j

C17_Witness ==
    /\ pc = "constructed"
    /\ Len(NextCalls) = 3
    /\ NextCalls[3].hr = WBEM_S_FALSE
    /\ Len(results_) = 2
    /\ results_ = enumGiven

(***************************************************************************)
(* Properties of the method-argument collection                            *)
(***************************************************************************)
NoneAlive == \A o \in ArgObjects : life[o] # "alive"

\* C4: once every collection object is destroyed, every string Put<string>
\* allocated has been released exactly once.
C4_EveryStringReleasedOnce ==
    NoneAlive => \A b \in DOMAIN heap : Len(heap[b].freedBy) = 1

\* the string handles owned by the entries of a collection
StringsOf(coll) ==
    {coll[i].second.bstrVal : i \in {j \in DOMAIN coll :
                                       coll[j].second.vt = "VT_BSTR"}}

\* C5: a move construction leaves the source empty and gives the
\* destination the source's entries; the strings of those entries are
\* released by the destination's destruction, once, and by nothing else, and
\* destroying the source while it is empty releases nothing.
C5_MoveTransfersOwnership ==
    moved.done =>
       /\ moved.srcAfter = <<>>
       /\ moved.dstAfter = moved.srcBefore
       /\ \A b \in StringsOf(moved.srcBefore) :
             heap[b].freedBy =
                IF life["dst"] = "destroyed" THEN <<"dst">> ELSE <<>>
       /\ (life["src"] = "destroyed" /\ arguments["src"] = <<>>)
             => \A b \in DOMAIN heap :
                   \A i \in DOMAIN heap[b].freedBy : heap[b].freedBy[i] # "src"

C5_Witness ==
    /\ moved.done
    /\ StringsOf(moved.srcBefore) # {}
    /\ life["src"] = "destroyed"
    /\ life["dst"] = "destroyed"
    /\ arguments["src"] = <<>>
    /\ \A b \in StringsOf(moved.srcBefore) : heap[b].freedBy = <<"dst">>

\* the successful Put calls made on a collection object, in the order made
PutsOn(o) == SelectSeq(lastPut.made, LAMBDA c : c.obj = o)

DistinctNames(s) == \A i, j \in DOMAIN s : s[i].name = s[j].name => i = j

\* entry e carries the name and the tagged value Put call c supplied
Supplied(c, e) ==
    /\ e.first = c.name
    /\ IF c.op = "Put<unsigned int>"
          THEN e.second = [vt |-> "VT_UI4", ulVal |-> c.value]
          ELSE /\ e.second.vt = "VT_BSTR"
               /\ e.second.bstrVal \in DOMAIN heap
               /\ heap[e.second.bstrVal].str = stringToWstring(c.value)

\* C11: a collection that was constructed empty and on which n successful Put
\* calls with pairwise distinct names were made holds exactly n entries, and
\* iterating it gives them in the order of the calls: the i-th entry carries
\* the name and the tagged value of the i-th call.
C11_DistinctPutsKeptInOrder ==
    (~moved.done /\ DistinctNames(PutsOn("src"))) =>
       /\ Len(arguments["src"]) = Len(PutsOn("src"))
       /\ \A i \in DOMAIN PutsOn("src") :
             i \in DOMAIN arguments["src"]
                /\ Supplied(PutsOn("src")[i], arguments["src"][i])

PutFailedToAllocate ==
    /\ lastPut.op = "Put<std::string>"
    /\ ~lastPut.alloc_ok

\* C12: a Put<std::string> whose string allocation failed returns the
\* failure "Out of memory", and the collection it was called on holds after
\* the call the entries it held before, no string having been allocated.
C12_FailedAllocationChangesNothing ==
    PutFailedToAllocate =>
       /\ ~lastPut.status.ok
       /\ lastPut.status.msg = "Out of memory"
       /\ lastPut.after = lastPut.before
       /\ lastPut.heapAfter = lastPut.heapBefore

C12_Witness ==
    /\ PutFailedToAllocate
    /\ lastPut.before # <<>>
    /\ lastPut.after = lastPut.before
    /\ \A i \in DOMAIN lastPut.before : lastPut.before[i].first # lastPut.name
    /\ ~lastPut.status.ok

(***************************************************************************)
(* Properties of the getters                                               *)
(***************************************************************************)
\* the tag each getter compares the field's tag with
ExpectedTag(g) ==
    CASE g = "GetBool" -> "VT_BOOL"
      [] g = "GetUChar" -> "VT_UI1"
      [] g = "GetUnsignedShort" -> "VT_UI2"
      [] g = "GetUnsignedInt32" -> "VT_UINT"
      [] g = "GetLong" -> "VT_I4"
      [] g = "GetUnsignedLong" -> "VT_UI4"
      [] g = "GetLongLong" -> "VT_I8"
      [] g = "GetUnsignedLongLong" -> "VT_UI8"
      [] g = "GetString" -> "VT_BSTR"
      [] g = "GetVectorOfStrings" -> "VT_BSTR|VT_ARRAY"
      [] g = "GetDateTime" -> "VT_BSTR"

MismatchMessages ==
    {"Invalid data type returned.", "Expected VT_BSTR, got something else."}

Called == lastGet.getter # "none"
Mismatched ==
    /\ Called
    /\ lastGet.field.hr = S_OK
    /\ lastGet.field.vt # ExpectedTag(lastGet.getter)

\* C6: a getter called on a field whose tag is not the one it expects
\* returns a type-mismatch failure, and its output is not made from the
\* field's value: it is what it was (for GetString, the empty string).
C6_MismatchedTagRejected ==
    Mismatched =>
       /\ ~lastGet.res.status.ok
       /\ lastGet.res.status.msg \in MismatchMessages
       /\ lastGet.res.out =
             IF lastGet.getter = "GetString" THEN "" ELSE lastGet.before

C6_Witness ==
    /\ Mismatched
    /\ lastGet.getter = "GetUnsignedLong"
    /\ lastGet.field.vt = "VT_I4"
    /\ ~lastGet.res.status.ok
    /\ lastGet.res.out = lastGet.before

LookupFailed ==
    /\ Called
    /\ lastGet.field.hr # S_OK

\* C13: a getter whose lookup failed or whose field carries another tag
\* than it expects returns failure; and whenever a getter returns failure,
\* the caller's output is what it was before the call, except for GetString,
\* whose output is then the empty string.
C13_FailedGetterOutput ==
    /\ (LookupFailed \/ Mismatched) => ~lastGet.res.status.ok
    /\ (Called /\ ~lastGet.res.status.ok) =>
          IF lastGet.getter = "GetString"
             THEN lastGet.res.out = ""
             ELSE lastGet.res.out = lastGet.before

C13_Witness ==
    /\ LookupFailed
    /\ lastGet.getter = "GetString"
    /\ lastGet.before = "old"
    /\ ~lastGet.res.status.ok
    /\ lastGet.res.out = ""

\* the last call was of getter g on a field carrying the tag g expects
Matched(g) ==
    /\ Called
    /\ lastGet.getter = g
    /\ lastGet.field.hr = S_OK
    /\ lastGet.field.vt = ExpectedTag(g)

\* the elements of an array, decoded, the one at the lower bound first
Decoded(data) == [i \in DOMAIN data |-> bstrToString(data[i])]

\* C14: GetVectorOfStrings on an array-of-strings field of n elements
\* returns success, and its output is exactly the n decoded elements in the
\* order of the array.
C14_VectorIsTheElements ==
    Matched("GetVectorOfStrings") =>
       /\ lastGet.res.status.ok
       /\ lastGet.res.out = Decoded(lastGet.field.val.data)

\* the 64 bits whose low 32 bits are those of v and whose high 32 bits
\* repeat bit 31 of v
Low32SignExtended(v) ==
    <<v[1], v[2], IF v[2] >= 2 ^ 15 THEN LimbMax ELSE 0,
      IF v[2] >= 2 ^ 15 THEN LimbMax ELSE 0>>

\* the integer a field of tag vt stores as the 64 bits v is within
\* -2^31 .. 2^31 - 1
FitsInt32(vt, v) ==
    IF vt = "VT_I8"
       THEN v = Low32SignExtended(v)
       ELSE v[2] < 2 ^ 15 /\ v[3] = 0 /\ v[4] = 0

Matched64 == Matched("GetLongLong") \/ Matched("GetUnsignedLongLong")

\* C16 as claimed: GetLongLong and GetUnsignedLongLong return the low 32
\* bits of the stored value sign-extended, so that the result equals the
\* stored value only when that value fits in a signed 32-bit integer.
C16_EqualOnlyIfFitsInt32 ==
    Matched64 =>
       /\ lastGet.res.status.ok
       /\ lastGet.res.out = Low32SignExtended(lastGet.field.val)
       /\ lastGet.res.out = lastGet.field.val =>
             FitsInt32(lastGet.field.vt, lastGet.field.val)

\* C16, amended: GetLongLong and GetUnsignedLongLong return the low 32 bits
\* of the stored value sign-extended; the result equals the stored value
\* exactly when the stored 64 bits are the sign extension of their low 32
\* bits, that is, for GetLongLong when the value fits in a signed 32-bit
\* integer, and for GetUnsignedLongLong when it does or is at least
\* 2^64 - 2^31.
C16_Low32SignExtended ==
    Matched64 =>
       /\ lastGet.res.status.ok
       /\ lastGet.res.out = Low32SignExtended(lastGet.field.val)
       /\ lastGet.res.out = lastGet.field.val <=>
             \/ FitsInt32(lastGet.field.vt, lastGet.field.val)
             \/ /\ lastGet.field.vt = "VT_UI8"
                /\ lastGet.field.val[2] >= 2 ^ 15
                /\ lastGet.field.val[3] = LimbMax
                /\ lastGet.field.val[4] = LimbMax

C16_Witness ==
    /\ Matched("GetUnsignedLongLong")
    /\ lastGet.field.val = <<LimbMax, LimbMax, LimbMax, LimbMax>>
    /\ lastGet.res.status.ok
    /\ lastGet.res.out = lastGet.field.val

\* C20: GetUnsignedInt32 on a field of the tag it accepts returns success,
\* and its output is the 32-bit value the field stores.
C20_UnsignedInt32Exact ==
    Matched("GetUnsignedInt32") =>
       /\ lastGet.res.status.ok
       /\ lastGet.res.out = <<lastGet.field.val[1], lastGet.field.val[2]>>

\* the positions of a step in a trace
At(tr, op, obj) == {i \in DOMAIN tr : tr[i] = Ev(op, obj)}

\* a resource is acquired at most once in a call; when it is, it is
\* released exactly once, afterwards, and read only in between; when it is
\* not, it is neither read nor released
HeldOnce(tr, obj) ==
    /\ Cardinality(At(tr, "acquire", obj)) <= 1
    /\ At(tr, "acquire", obj) = {} =>
          (At(tr, "release", obj) = {} /\ At(tr, "read", obj) = {})
    /\ \A a \in At(tr, "acquire", obj) :
          /\ Cardinality(At(tr, "release", obj)) = 1
          /\ \A r \in At(tr, "release", obj) :
                /\ a < r
                /\ \A u \in At(tr, "read", obj) : a < u /\ u < r

Acquired(tr, obj) == At(tr, "acquire", obj) # {}

\* C10: in a getter call whose lookup succeeded the value is released
\* exactly once and not read afterwards; GetDateTime releases the helper
\* object exactly once whenever it was created, and the rendered string
\* exactly once whenever it was produced.
C10_TransientsReleasedOnce ==
    Called =>
       LET tr == lastGet.res.trace
       IN /\ Acquired(tr, "value") <=> lastGet.field.hr = S_OK
          /\ HeldOnce(tr, "value")
          /\ HeldOnce(tr, "pData")
          /\ HeldOnce(tr, "dt")
          /\ HeldOnce(tr, "filetime_str")
          /\ lastGet.getter = "GetDateTime" =>
                /\ Acquired(tr, "dt") <=>
                      /\ lastGet.field.hr = S_OK
                      /\ lastGet.field.vt = "VT_BSTR"
                      /\ SUCCEEDED(lastGet.env.create)
                /\ Acquired(tr, "filetime_str") <=>
                      /\ Acquired(tr, "dt")
                      /\ SUCCEEDED(lastGet.env.put)
                      /\ SUCCEEDED(lastGet.env.render[lastGet.is_local].hr)

C10_Witness ==
    /\ Called
    /\ lastGet.getter = "GetDateTime"
    /\ ~lastGet.res.status.ok
    /\ lastGet.res.status.msg = "GetFileTime failed."
    /\ Cardinality(At(lastGet.res.trace, "release", "dt")) = 1
    /\ Cardinality(At(lastGet.res.trace, "release", "value")) = 1

(***************************************************************************)
(* Properties of ExecMethod                                                *)
(***************************************************************************)
Returned == x_pc = "idle" /\ lastExec.n > 0

StepsNamed(t, name) == {i \in DOMAIN t : t[i].step = name}

\* C7: when the method has no input-parameter schema (GetMethod succeeded
\* and gave no object), ExecMethod spawns no instance and copies no
\* argument, whatever the collection holds; the remote method is invoked
\* with no argument instance, and when that invocation succeeds ExecMethod
\* returns success with out_result wrapping the output parameters.
C7_NoSchemaNoInstance ==
    Returned =>
       LET loc == lastExec.locals
           t == loc.trace
       IN (Step("GetMethod", TRUE) \in {t[i] : i \in DOMAIN t}
             /\ loc.in_def = 0) =>
             /\ StepsNamed(t, "SpawnInstance") = {}
             /\ StepsNamed(t, "Put") = {}
             /\ loc.args_inst = 0
             /\ loc.put = <<>>
             /\ \A i \in StepsNamed(t, "ExecMethod") :
                   /\ t[i].in_params = 0
                   /\ t[i].ok => /\ lastExec.status.ok
                                 /\ loc.out_params # 0
                                 /\ out_result = loc.out_params

C7_Witness ==
    /\ Returned
    /\ lastExec.locals.in_def = 0
    /\ lastExec.args # <<>>
    /\ lastExec.status.ok
    /\ out_result = lastExec.locals.out_params
    /\ out_result # 0

\* the steps that may follow a step of ExecMethod
StepsAfter(name) ==
    CASE name = "class name" -> {"GetObject"}
      [] name = "GetObject" -> {"GetMethod"}
      [] name = "GetMethod" -> {"SpawnInstance", "method name"}
      [] name = "SpawnInstance" -> {"Put", "method name"}
      [] name = "Put" -> {"Put", "method name"}
      [] name = "method name" -> {"object path"}
      [] name = "object path" -> {"ExecMethod"}
      [] name = "ExecMethod" -> {}

\* C8: ExecMethod takes its steps in order; a step that fails is the last
\* one taken, the call returns failure, and out_result is what it was; the
\* call returns success only after the remote invocation succeeded.
C8_FailureReturnsAtOnce ==
    Returned =>
       LET t == lastExec.locals.trace
       IN /\ t # <<>>
          /\ t[1].step = "class name"
          /\ \A i \in DOMAIN t :
                i < Len(t) => /\ t[i].ok
                              /\ t[i + 1].step \in StepsAfter(t[i].step)
          /\ lastExec.status.ok <=> t[Len(t)].ok
          /\ lastExec.status.ok => t[Len(t)].step = "ExecMethod"
          /\ ~lastExec.status.ok =>
                /\ out_result = lastExec.before
                /\ \A i \in StepsNamed(t, "ExecMethod") : ~t[i].ok

C8_Witness ==
    /\ Returned
    /\ ~lastExec.status.ok
    /\ lastExec.status.msg = "Failed to Put arguments"
    /\ Len(lastExec.locals.put) = 1
    /\ StepsNamed(lastExec.locals.trace, "ExecMethod") = {}
    /\ out_result = lastExec.before

\* the strings and objects the last call acquired
CallStrings ==
    {lastExec.locals.wmi_class_name, lastExec.locals.wmi_meth_name,
     lastExec.locals.wmi_obj_path} \ {0}
CallObjects ==
    {lastExec.locals.class_obj, lastExec.locals.in_def,
     lastExec.locals.args_inst, lastExec.locals.out_params} \ {0}

\* C9: when ExecMethod returns, each string it allocated has been freed
\* exactly once, each object it was given has been released exactly once,
\* except the output parameters now wrapped by out_result, which are not
\* released; and no handle was passed to a call after its release.
C9_CallResourcesReleasedOnce ==
    Returned =>
       /\ \A b \in CallStrings : heap[b].freedBy = <<"ExecMethod">>
       /\ \A b \in DOMAIN heap : Len(heap[b].freedBy) <= 1
       /\ \A o \in DOMAIN objects :
             objects[o].released = IF o = out_result THEN 0 ELSE 1
       /\ lastExec.status.ok => lastExec.locals.out_params = out_result
       /\ ~uaf

C9_Witness ==
    /\ Returned
    /\ ~lastExec.status.ok
    /\ lastExec.locals.wmi_meth_name # 0
    /\ lastExec.locals.wmi_obj_path = 0
    /\ lastExec.locals.args_inst # 0
    /\ heap[lastExec.locals.wmi_meth_name].freedBy = <<"ExecMethod">>
    /\ objects[lastExec.locals.args_inst].released = 1

\* C15: of the calls that returned a failure, no two that returned from
\* different steps returned the same message.
C15_MessageIdentifiesStep ==
    \A a, b \in lastExec.failures : a.msg = b.msg => a.step = b.step

\* the steps of the call in progress or, between calls, of the last call
CurrentTrace ==
    IF x_pc # "idle"
       THEN x.trace
       ELSE IF lastExec.n > 0 THEN lastExec.locals.trace ELSE <<>>

\* the Request was constructed without a services handle
Unbound == pc = "constructed" /\ services_ = "null"

\* C18: on a Request constructed without a services handle ExecMethod does
\* not fault and makes no call through the handle: a call whose class name
\* resolved returns a failure, the class-definition fetch not having been
\* made.
C18_NeverUsesUnboundServices ==
    Unbound =>
       /\ x_pc # "fault"
       /\ StepsNamed(CurrentTrace, "GetObject") = {}
       /\ StepsNamed(CurrentTrace, "ExecMethod") = {}
       /\ Returned => ~lastExec.status.ok

\* the strings Put<std::string> allocated for the collection ExecMethod is
\* given: the collection is built before the first call, so they are the
\* first strings of the heap, one for each successful Put<std::string>
PutStrings ==
    1..Len(SelectSeq(lastPut.made, LAMBDA c : c.op = "Put<std::string>"))

\* what args_inst holds when every entry of args was put into it, in order
CopyOf(args) ==
    [i \in DOMAIN args |-> <<stringToWstring(args[i].first), args[i].second>>]

\* C19: when ExecMethod returns, with success or failure, the collection it
\* was given is what it was at the call, and while the collection lives
\* none of the strings allocated for it is released; when the method
\* declares input parameters, every entry has been copied into the spawned
\* instance before the remote invocation; and once the collection is
\* destroyed, after any number of calls, each string allocated for it has
\* been released exactly once.
C19_ArgsLeftToTheirOwner ==
    /\ Returned =>
          /\ lastExec.args = lastExec.locals.args
          /\ (lastExec.locals.in_def # 0
                /\ StepsNamed(lastExec.locals.trace, "ExecMethod") # {}) =>
                lastExec.locals.put = CopyOf(lastExec.locals.args)
    /\ life["src"] = "alive" =>
          \A b \in PutStrings : heap[b].freedBy = <<>>
    /\ (life["src"] = "destroyed" /\ lastExec.n > 0) =>
          \A b \in PutStrings : heap[b].freedBy = <<"src">>

====
